---- MODULE Spec2Model ----
(***************************************************************************)
(* The user / project / association service of minimal_fastapi_app as a    *)
(* state machine.  The store is the three tables (users, projects,         *)
(* user_project_association) with the constraints the ORM classes declare. *)
(* Every HTTP request runs on a session of its own; a handler is cut into  *)
(* steps at the awaits that talk to the store, so that the statements of   *)
(* two requests interleave the way the event loop lets them.               *)
(*                                                                         *)
(* Strings are tuples of one-character strings, so that the whitespace     *)
(* stripping of the request schemas is computed, not assumed.  Messages    *)
(* are tuples of words, so that the routers' substring tests are computed. *)
(***************************************************************************)
EXTENDS Integers, Sequences, FiniteSets, Bags, TLC

VARIABLES
    users,          \* table users: sequence of rows, in heap order
    projects,       \* table projects: sequence of rows, in heap order
    assoc,          \* table user_project_association: bag of <<user id, project id>>
    nextUserId,     \* next value of the users.id sequence
    nextProjectId,  \* next value of the projects.id sequence
    clock,          \* what datetime.now() returned last
    admitted,       \* number of requests admitted so far
    req,            \* per session: the request in flight and where its handler stands
    last,           \* the response to the request that finished most recently
    sessionmaker,   \* number of async_sessionmaker objects made (_sessionmaker is None: 0)
    opened,         \* number of AsyncSession objects the sessionmaker has made
    db,             \* per request in flight: the AsyncSession its handler was given, else 0
    environ,        \* os.environ: ENVIRONMENT and SECRET_KEY, each set or not
    settings,       \* the Settings object made last, with the assignments to it
    raised,         \* the last construction or assignment raised ValidationError
    log,            \* the middleware's log lines: <<message, correlation_id>>
    correlation,    \* per request in flight: its correlation id, else 0
    header          \* X-Correlation-ID of the last response, 0 when it has none

vars == <<users, projects, assoc, nextUserId, nextProjectId, clock, admitted, req, last,
          sessionmaker, opened, db, environ, settings, raised,
          log, correlation, header>>
config == <<environ, settings, raised>>
logging == <<log, correlation, header>>
store == <<users, projects, assoc>>

----------------------------------------------------------------------------
(* Bounds of the model *)

MaxRequests == 4   \* requests admitted in one behaviour
MaxTime == 14      \* last value of the clock
MaxRows == 5       \* rows of each table at the start of StoredSpec

Sessions == {"s1", "s2"}

----------------------------------------------------------------------------
(* Strings *)

Null == <<"NULL">>
SP == " "
A == <<"a">>
PadA == <<SP, "a">>
B == <<"b">>
Blank == <<SP>>
D == <<"d">>
PadD == <<"d", SP>>
X == <<"x">>
Y == <<"y">>
G == <<"g">>
H == <<"h">>
F == <<"f">>

RECURSIVE LStrip(_)
LStrip(s) == IF s # <<>> /\ Head(s) = SP THEN LStrip(Tail(s)) ELSE s

RECURSIVE RStrip(_)
RStrip(s) == IF s # <<>> /\ s[Len(s)] = SP THEN RStrip(SubSeq(s, 1, Len(s) - 1)) ELSE s

\* variant: a schema that keeps the string as sent
KeepWhitespace(v) == v

\* str_strip_whitespace = True: every string field of the schema is stripped
Strip(v) == IF v = Null THEN Null ELSE RStrip(LStrip(v))

----------------------------------------------------------------------------
(* Messages of BusinessException and the routers' tests on them *)

MsgEmailExists == <<"A", "user", "with", "this", "email", "already", "exists">>
MsgProjectIdExists == <<"A", "project", "with", "this", "project_id", "already", "exists">>
MsgUserNotFound(k) == <<"User", "with", "id", ToString(k), "not", "found">>
MsgProjectNotFound(k) == <<"Project", "with", "id", ToString(k), "not", "found">>
MsgUserOrProjectNotFound == <<"User", "or", "Project", "not", "found">>
MsgNotInProject == <<"User", "is", "not", "in", "project">>
NoMsg == <<>>

LowerWord(w) ==
    CASE w = "A" -> "a"
      [] w = "User" -> "user"
      [] w = "Project" -> "project"
      [] OTHER -> w

\* str.lower()
Lower(msg) == [i \in DOMAIN msg |-> LowerWord(msg[i])]

\* phrase in msg
Contains(msg, phrase) ==
    \E i \in 1..(Len(msg) - Len(phrase) + 1) :
        SubSeq(msg, i, i + Len(phrase) - 1) = phrase

\* the routers' `"not found" in exc.message.lower()`
SaysNotFound(msg) == Contains(Lower(msg), <<"not", "found">>)

\* the remove router's `"not in project" in msg`
SaysNotInProject(msg) == Contains(Lower(msg), <<"not", "in", "project">>)

----------------------------------------------------------------------------
(* The store: rows, lookups and the constraints the tables declare *)

NoRow == [id |-> 0]

Ids(table) == {table[i].id : i \in DOMAIN table}
Rows(table) == {table[i] : i \in DOMAIN table}

\* select(...).where(id == k) ... scalar_one_or_none(), and db.get(ORM, k)
RowById(table, k) ==
    IF k \in Ids(table) THEN CHOOSE r \in Rows(table) : r.id = k ELSE NoRow

Without(table, k) == SelectSeq(table, LAMBDA r : r.id # k)

Replaced(table, row) ==
    [i \in DOMAIN table |-> IF table[i].id = row.id THEN row ELSE table[i]]

\* the table after an UPDATE of row, in the order a SELECT without ORDER BY
\* scans it: the store may keep the row at its place or write the new
\* version behind the other rows
Rewritten(table, row) ==
    {Replaced(table, row), Append(Without(table, row.id), row)}

\* variant: the users table without the unique index on email
NoUniqueEmail(table) == TRUE

\* users.email: unique = True
UniqueEmail(table) ==
    \A i, j \in DOMAIN table : i # j => table[i].email # table[j].email

\* projects.<identifier>: unique = True
UniqueProjectId(table) ==
    \A i, j \in DOMAIN table : i # j => table[i].project_id # table[j].project_id

\* users: nullable = False columns
UsersNotNull(table) ==
    \A i \in DOMAIN table :
        /\ table[i].given_name # Null
        /\ table[i].family_name # Null
        /\ table[i].email # Null

\* projects: nullable = False columns (description is nullable)
ProjectsNotNull(table) == \A i \in DOMAIN table : table[i].project_id # Null

\* variant: the association table without its primary key
NoPrimaryKey(a) == TRUE

\* user_project_association: primary key (user_id, project_id)
AssocPrimaryKey(a) == \A e \in BagToSet(a) : CopiesIn(e, a) = 1

\* variant: the association table without its foreign keys
NoForeignKeys(u, p, a) == TRUE

\* user_project_association: ForeignKey("users.id"), ForeignKey("projects.id")
AssocForeignKeys(u, p, a) ==
    \A e \in BagToSet(a) : e[1] \in Ids(u) /\ e[2] \in Ids(p)

\* what the store accepts at commit; anything else raises IntegrityError
IntegrityOk(u, p, a) ==
    /\ UniqueEmail(u)
    /\ UsersNotNull(u)
    /\ UniqueProjectId(p)
    /\ ProjectsNotNull(p)
    /\ AssocPrimaryKey(a)
    /\ AssocForeignKeys(u, p, a)

\* variant: the load of a user's projects does not filter on the user
ProjectsOfAnyUser(a, uid) == {e[2] : e \in BagToSet(a)}

\* the relationship collections, as a selectin load fills them
ProjectsOfUser(a, uid) == {e[2] : e \in {x \in BagToSet(a) : x[1] = uid}}
UsersOfProject(a, pid) == {e[1] : e \in {x \in BagToSet(a) : x[2] = pid}}

----------------------------------------------------------------------------
(* Request bodies: a JSON object is the set of its <<field, value>> pairs; *)
(* a field that is not sent has no pair, a field sent as null has Null.    *)

Fields(body) == {e[1] : e \in body}
Has(body, f) == f \in Fields(body)
Get(body, f) == (CHOOSE e \in body : e[1] = f)[2]

\* getattr(model, f): None when the field was not sent
Attr(body, f) == IF Has(body, f) THEN Get(body, f) ELSE Null

----------------------------------------------------------------------------
(* Requests and responses *)

Idle == [op |-> "idle", pc |-> "-", method |-> "-", key |-> 0, key2 |-> 0,
         body |-> {}, data |-> {}, row |-> NoRow, members |-> {}, stamp |-> 0]

NoResponse == [session |-> "-", op |-> "none", method |-> "-", key |-> 0, key2 |-> 0,
               body |-> {}, status |-> 0, exc |-> "none", msg |-> NoMsg,
               via |-> "-", result |-> NoRow, members |-> {}]

\* the response to the request in session s
Response(s, status, exc, msg, via, result) ==
    [session |-> s, op |-> req[s].op, method |-> req[s].method,
     key |-> req[s].key, key2 |-> req[s].key2, body |-> req[s].body,
     status |-> status, exc |-> exc, msg |-> msg, via |-> via, result |-> result,
     members |-> req[s].members]

\* a request answered in the step that admits it
Answer(s, op, method, key, key2, body, status, exc, msg, via, result) ==
    [session |-> s, op |-> op, method |-> method, key |-> key, key2 |-> key2,
     body |-> body, status |-> status, exc |-> exc, msg |-> msg, via |-> via,
     result |-> result, members |-> {}]

Admit(s) ==
    /\ req[s] = Idle
    /\ admitted < MaxRequests
    /\ admitted' = admitted + 1

\* datetime.now() with microsecond resolution: a reading taken after an await
\* is later than every reading before it
Now(t) == clock < MaxTime /\ t = clock + 1

\* the step answers a request of session s
Answered(s) ==
    /\ req'[s] = Idle
    /\ req[s] # Idle \/ admitted' # admitted
    /\ last'.session = s

----------------------------------------------------------------------------
(* The routers' mapping of a BusinessException to an HTTP status *)

\* variant: a duplicate is answered 409
CreateStatusConflict(msg) == 409

CreateStatus(msg) == 400
GetStatus(msg) == 404
\* variant: the update router answers every business failure with 400
UpdateStatusBadRequest(msg) == 400

UpdateStatus(msg) == IF SaysNotFound(msg) THEN 404 ELSE 400
DeleteStatus(msg) == 404
\* variant: the add router answers every business failure with 400
AddStatusBadRequest(msg) == 400

AddStatus(msg) == IF SaysNotFound(msg) THEN 404 ELSE 400
\* variant: the remove router looks for "not found" only
RemoveStatusNotFoundOnly(msg) == IF SaysNotFound(msg) THEN 404 ELSE 400

RemoveStatus(msg) == IF SaysNotFound(msg) \/ SaysNotInProject(msg) THEN 404 ELSE 400

----------------------------------------------------------------------------
(* Users *)

UserRequired == {"given_name", "family_name", "email"}

\* UserCreate: every field required, a string of at least one character
ValidUserCreate(body) ==
    \A f \in UserRequired : Has(body, f) /\ Get(body, f) # Null /\ Len(Get(body, f)) >= 1

\* UserUpdate(UserBase): every field optional, strings stripped
UserUpdateData(body) == {<<e[1], Strip(e[2])>> : e \in body}

\* variant: the PUT router does not look for missing fields
NothingMissing(body) == {}

\* the PUT router's missing_fields
UserPutMissing(body) == {f \in UserRequired : Attr(UserUpdateData(body), f) = Null}

\* select(UserORM).where(email == e [and id != k]) ... scalar_one_or_none()
EmailTaken(table, email, self) ==
    \E i \in DOMAIN table : table[i].email = email /\ table[i].id # self

\* variant: a created_at in the payload is written as well
Stamp(v) == IF v = <<"9">> THEN 9 ELSE 0

SetSentUserFields(row, data) ==
    [row EXCEPT !.given_name = IF Has(data, "given_name") THEN Get(data, "given_name") ELSE @,
                !.family_name = IF Has(data, "family_name") THEN Get(data, "family_name") ELSE @,
                !.email = IF Has(data, "email") THEN Get(data, "email") ELSE @,
                !.created_at = IF Has(data, "created_at") THEN Stamp(Get(data, "created_at"))
                                ELSE @]

\* for field, value in update_data.items(): setattr(row, field, value); the
\* dump of a UserUpdate holds given_name, family_name and email only
SetUserFields(row, data) ==
    [row EXCEPT !.given_name = IF Has(data, "given_name") THEN Get(data, "given_name") ELSE @,
                !.family_name = IF Has(data, "family_name") THEN Get(data, "family_name") ELSE @,
                !.email = IF Has(data, "email") THEN Get(data, "email") ELSE @]

\* POST /v1/users/ up to the first commit: validation, the duplicate check,
\* the construction of the row
CreateUserCheck(s, body) ==
    /\ Admit(s)
    /\ UNCHANGED <<users, projects, assoc, nextUserId, nextProjectId>>
    /\ IF ~ValidUserCreate(body)
       THEN /\ last' = Answer(s, "create_user", "POST", 0, 0, body, 422, "validation",
                              NoMsg, "schema", NoRow)
            /\ UNCHANGED <<req, clock>>
       ELSE IF EmailTaken(users, Get(body, "email"), 0)
       THEN /\ last' = Answer(s, "create_user", "POST", 0, 0, body,
                              CreateStatus(MsgEmailExists), "business", MsgEmailExists,
                              "check", NoRow)
            /\ UNCHANGED <<req, clock>>
       ELSE \E t \in 0..MaxTime :
            /\ Now(t)
            /\ clock' = t
            /\ req' = [req EXCEPT ![s] =
                         [Idle EXCEPT !.op = "create_user", !.pc = "commit",
                                      !.method = "POST", !.body = body,
                                      !.row = [id |-> 0,
                                               given_name |-> Get(body, "given_name"),
                                               family_name |-> Get(body, "family_name"),
                                               email |-> Get(body, "email"),
                                               created_at |-> t]]]
            /\ UNCHANGED last

\* variant: the IntegrityError of the commit is not caught
CreateUserUncaught(s) == Response(s, 500, "store", NoMsg, "commit", NoRow)

\* except IntegrityError: rollback, BusinessException; the router answers 400
CreateUserIntegrityError(s) ==
    Response(s, CreateStatus(MsgEmailExists), "business", MsgEmailExists, "commit", NoRow)

\* POST /v1/users/: session.commit(), session.refresh(user), the response
CreateUserCommit(s) ==
    /\ req[s].op = "create_user" /\ req[s].pc = "commit"
    /\ LET row == [req[s].row EXCEPT !.id = nextUserId]
           cand == Append(users, row)
       IN  IF IntegrityOk(cand, projects, assoc)
           THEN /\ users' = cand
                /\ nextUserId' = nextUserId + 1
                /\ last' = Response(s, 201, "none", NoMsg, "commit", row)
           ELSE /\ last' = CreateUserIntegrityError(s)
                /\ UNCHANGED <<users, nextUserId>>
    /\ req' = [req EXCEPT ![s] = Idle]
    /\ UNCHANGED <<projects, assoc, nextProjectId, clock, admitted>>

\* GET /v1/users/{key}
GetUser(s, k) ==
    /\ Admit(s)
    /\ LET row == RowById(users, k)
       IN  last' = IF row = NoRow
                   THEN Answer(s, "get_user", "GET", k, 0, {},
                               GetStatus(MsgUserNotFound(k)), "business",
                               MsgUserNotFound(k), "load", NoRow)
                   ELSE Answer(s, "get_user", "GET", k, 0, {}, 200, "none", NoMsg,
                               "load", row)
    /\ UNCHANGED <<users, projects, assoc, nextUserId, nextProjectId, clock, req>>

\* PUT or PATCH /v1/users/{key} up to the duplicate check: the PUT router's
\* required fields, the load of the row
UpdateUserLoad(s, k, method, body) ==
    /\ Admit(s)
    /\ UNCHANGED <<users, projects, assoc, nextUserId, nextProjectId, clock>>
    /\ IF method = "PUT" /\ UserPutMissing(body) # {}
       THEN /\ last' = Answer(s, "update_user", method, k, 0, body, 422, "validation",
                              NoMsg, "router", NoRow)
            /\ UNCHANGED req
       ELSE IF RowById(users, k) = NoRow
       THEN /\ last' = Answer(s, "update_user", method, k, 0, body,
                              UpdateStatus(MsgUserNotFound(k)), "business",
                              MsgUserNotFound(k), "load", NoRow)
            /\ UNCHANGED req
       ELSE /\ req' = [req EXCEPT ![s] =
                         [Idle EXCEPT !.op = "update_user",
                                      !.pc = IF Has(body, "email") THEN "check" ELSE "commit",
                                      !.method = method, !.key = k, !.body = body,
                                      !.data = UserUpdateData(body),
                                      !.row = RowById(users, k)]]
            /\ UNCHANGED last

\* the duplicate email check of update_user (excluding self)
UpdateUserCheck(s) ==
    /\ req[s].op = "update_user" /\ req[s].pc = "check"
    /\ IF EmailTaken(users, Get(req[s].data, "email"), req[s].key)
       THEN /\ last' = Response(s, UpdateStatus(MsgEmailExists), "business",
                                MsgEmailExists, "check", NoRow)
            /\ req' = [req EXCEPT ![s] = Idle]
       ELSE /\ req' = [req EXCEPT ![s].pc = "commit"]
            /\ UNCHANGED last
    /\ UNCHANGED <<users, projects, assoc, nextUserId, nextProjectId, clock, admitted>>

\* variant: the fields other than email are written before the commit fails
UserFieldsWrittenOnFailure(table, row, data) ==
    Replaced(table, SetUserFields(row, {e \in data : e[1] # "email"}))

\* session.rollback(): nothing of the failed transaction stays
UsersAfterRollback(table, row, data) == table

\* the setattr loop, session.commit(), session.refresh(user), the response
UpdateUserCommit(s) ==
    /\ req[s].op = "update_user" /\ req[s].pc = "commit"
    /\ LET cur == RowById(users, req[s].key)
           row == SetUserFields(cur, req[s].data)
       IN  IF cur = NoRow
           THEN \* UPDATE matched no row: StaleDataError, not handled
                /\ last' = Response(s, 500, "store", NoMsg, "commit", NoRow)
                /\ UNCHANGED users
           ELSE \E cand \in Rewritten(users, row) :
                IF IntegrityOk(cand, projects, assoc)
                THEN /\ users' = cand
                     /\ last' = Response(s, 200, "none", NoMsg, "commit", row)
                ELSE /\ users' = UsersAfterRollback(users, cur, req[s].data)
                     /\ last' = Response(s, UpdateStatus(MsgEmailExists), "business",
                                         MsgEmailExists, "commit", NoRow)
    /\ req' = [req EXCEPT ![s] = Idle]
    /\ UNCHANGED <<projects, assoc, nextUserId, nextProjectId, clock, admitted>>

\* DELETE /v1/users/{key} up to session.delete: the load of the row and of
\* its projects collection
DeleteUserLoad(s, k) ==
    /\ Admit(s)
    /\ UNCHANGED <<users, projects, assoc, nextUserId, nextProjectId, clock>>
    /\ IF RowById(users, k) = NoRow
       THEN /\ last' = Answer(s, "delete_user", "DELETE", k, 0, {},
                              DeleteStatus(MsgUserNotFound(k)), "business",
                              MsgUserNotFound(k), "load", NoRow)
            /\ UNCHANGED req
       ELSE /\ req' = [req EXCEPT ![s] =
                         [Idle EXCEPT !.op = "delete_user", !.pc = "commit",
                                      !.method = "DELETE", !.key = k,
                                      !.row = RowById(users, k),
                                      !.members = ProjectsOfUser(assoc, k)]]
            /\ UNCHANGED last

\* the unit of work deletes the association rows of the loaded collection
DropLinks(a, pairs) == a (-) SetToBag(pairs)

\* session.delete(user), session.commit()
DeleteUserCommit(s) ==
    /\ req[s].op = "delete_user" /\ req[s].pc = "commit"
    /\ LET pairs == {<<req[s].key, p>> : p \in req[s].members}
           candA == DropLinks(assoc, pairs)
           candU == Without(users, req[s].key)
       IN  IF ~(pairs \subseteq BagToSet(assoc))
           THEN \* DELETE of an association row matched nothing: StaleDataError
                /\ last' = Response(s, 500, "store", NoMsg, "commit", NoRow)
                /\ UNCHANGED <<users, assoc>>
           ELSE IF IntegrityOk(candU, projects, candA)
           THEN /\ users' = candU
                /\ assoc' = candA
                /\ last' = Response(s, 204, "none", NoMsg, "commit", NoRow)
           ELSE \* IntegrityError (foreign key), not handled
                /\ last' = Response(s, 500, "store", NoMsg, "commit", NoRow)
                /\ UNCHANGED <<users, assoc>>
    /\ req' = [req EXCEPT ![s] = Idle]
    /\ UNCHANGED <<projects, nextUserId, nextProjectId, clock, admitted>>

----------------------------------------------------------------------------
(* Projects *)

\* ProjectCreate(ProjectBase): project_id required, stripped, at least one
\* character; description optional
ValidProjectCreate(body) ==
    /\ Has(body, "project_id")
    /\ Get(body, "project_id") # Null
    /\ Len(Strip(Get(body, "project_id"))) >= 1

\* ProjectUpdate: every field optional; a project_id that is sent and not
\* null has at least one character after stripping
ValidProjectUpdate(body) ==
    Has(body, "project_id") /\ Get(body, "project_id") # Null
        => Len(Strip(Get(body, "project_id"))) >= 1

\* the validated ProjectCreate: both fields, stripped
ProjectCreateData(body) ==
    {<<"project_id", Strip(Get(body, "project_id"))>>,
     <<"description", Strip(Attr(body, "description"))>>}

\* PATCH: ProjectUpdate.model_dump(exclude_unset = True)
ProjectPatchData(body) == {<<e[1], Strip(e[2])>> : e \in body}

\* variant: PUT passes on the fields that were sent only
ProjectPutSentOnly(body) == ProjectPatchData(body)

\* PUT: ProjectUpdate(**project_data.model_dump()) sets every field
ProjectPutData(body) == ProjectCreateData(body)

\* select(ProjectORM).where(project_id == v [and id != k]) ... scalar_one_or_none()
ProjectIdTaken(table, pid, self) ==
    \E i \in DOMAIN table : table[i].project_id = pid /\ table[i].id # self

\* variant: a field that was not sent is cleared
SetAllProjectFields(row, data) ==
    [row EXCEPT !.project_id = IF Has(data, "project_id") THEN Get(data, "project_id") ELSE @,
                !.description = Attr(data, "description")]

\* the setattr loop of update_project
SetProjectFields(row, data) ==
    [row EXCEPT !.project_id = IF Has(data, "project_id") THEN Get(data, "project_id") ELSE @,
                !.description = IF Has(data, "description") THEN Get(data, "description") ELSE @]

\* POST /v1/projects/ up to the first commit
CreateProjectCheck(s, body) ==
    /\ Admit(s)
    /\ UNCHANGED <<users, projects, assoc, nextUserId, nextProjectId>>
    /\ IF ~ValidProjectCreate(body)
       THEN /\ last' = Answer(s, "create_project", "POST", 0, 0, body, 422, "validation",
                              NoMsg, "schema", NoRow)
            /\ UNCHANGED <<req, clock>>
       ELSE IF ProjectIdTaken(projects, Get(ProjectCreateData(body), "project_id"), 0)
       THEN /\ last' = Answer(s, "create_project", "POST", 0, 0, body,
                              CreateStatus(MsgProjectIdExists), "business",
                              MsgProjectIdExists, "check", NoRow)
            /\ UNCHANGED <<req, clock>>
       ELSE \E t1, t2 \in 0..MaxTime :
            \* created_at = datetime.now(), updated_at = datetime.now()
            /\ Now(t1)
            \* the second reading follows at once: the same microsecond or the next
            /\ t2 \in t1..(IF t1 < MaxTime THEN t1 + 1 ELSE t1)
            /\ clock' = t2
            /\ req' = [req EXCEPT ![s] =
                         [Idle EXCEPT !.op = "create_project", !.pc = "commit",
                                      !.method = "POST", !.body = body,
                                      !.data = ProjectCreateData(body),
                                      !.row = [id |-> 0,
                                               project_id |-> Get(ProjectCreateData(body), "project_id"),
                                               description |-> Get(ProjectCreateData(body), "description"),
                                               created_at |-> t1,
                                               updated_at |-> t2]]]
            /\ UNCHANGED last

\* except IntegrityError: rollback, BusinessException; the router answers 400
CreateProjectIntegrityError(s) ==
    Response(s, CreateStatus(MsgProjectIdExists), "business", MsgProjectIdExists,
             "commit", NoRow)

\* POST /v1/projects/: db.commit(), db.refresh(project), the response
CreateProjectCommit(s) ==
    /\ req[s].op = "create_project" /\ req[s].pc = "commit"
    /\ LET row == [req[s].row EXCEPT !.id = nextProjectId]
           cand == Append(projects, row)
       IN  IF IntegrityOk(users, cand, assoc)
           THEN /\ projects' = cand
                /\ nextProjectId' = nextProjectId + 1
                /\ last' = Response(s, 201, "none", NoMsg, "commit", row)
           ELSE /\ last' = CreateProjectIntegrityError(s)
                /\ UNCHANGED <<projects, nextProjectId>>
    /\ req' = [req EXCEPT ![s] = Idle]
    /\ UNCHANGED <<users, assoc, nextUserId, clock, admitted>>

\* GET /v1/projects/{key}
GetProject(s, k) ==
    /\ Admit(s)
    /\ LET row == RowById(projects, k)
       IN  last' = IF row = NoRow
                   THEN Answer(s, "get_project", "GET", k, 0, {},
                               GetStatus(MsgProjectNotFound(k)), "business",
                               MsgProjectNotFound(k), "load", NoRow)
                   ELSE Answer(s, "get_project", "GET", k, 0, {}, 200, "none", NoMsg,
                               "load", row)
    /\ UNCHANGED <<users, projects, assoc, nextUserId, nextProjectId, clock, req>>

\* after the load and the duplicate check: the setattr loop and
\* updated_at = datetime.now(), then on to the commit
ProjectReadyToCommit(s, r) ==
    \E t \in 0..MaxTime :
        /\ Now(t)
        /\ clock' = t
        /\ req' = [req EXCEPT ![s] = [r EXCEPT !.pc = "commit", !.stamp = t]]

\* PUT or PATCH /v1/projects/{key} up to the duplicate check
UpdateProjectLoad(s, k, method, body) ==
    /\ Admit(s)
    /\ UNCHANGED <<users, projects, assoc, nextUserId, nextProjectId>>
    /\ LET valid == IF method = "PUT" THEN ValidProjectCreate(body)
                    ELSE ValidProjectUpdate(body)
           data == IF method = "PUT" THEN ProjectPutData(body) ELSE ProjectPatchData(body)
           r == [Idle EXCEPT !.op = "update_project", !.pc = "check", !.method = method,
                             !.key = k, !.body = body, !.data = data,
                             !.row = RowById(projects, k)]
       IN  IF ~valid
           THEN /\ last' = Answer(s, "update_project", method, k, 0, body, 422,
                                  "validation", NoMsg, "schema", NoRow)
                /\ UNCHANGED <<req, clock>>
           ELSE IF RowById(projects, k) = NoRow
           THEN /\ last' = Answer(s, "update_project", method, k, 0, body,
                                  UpdateStatus(MsgProjectNotFound(k)), "business",
                                  MsgProjectNotFound(k), "load", NoRow)
                /\ UNCHANGED <<req, clock>>
           ELSE IF Has(data, "project_id")
           THEN /\ req' = [req EXCEPT ![s] = r]
                /\ UNCHANGED <<last, clock>>
           ELSE /\ ProjectReadyToCommit(s, r)
                /\ UNCHANGED last

\* the duplicate project_id check of update_project (excluding self)
UpdateProjectCheck(s) ==
    /\ req[s].op = "update_project" /\ req[s].pc = "check"
    /\ IF ProjectIdTaken(projects, Get(req[s].data, "project_id"), req[s].key)
       THEN /\ last' = Response(s, UpdateStatus(MsgProjectIdExists), "business",
                                MsgProjectIdExists, "check", NoRow)
            /\ req' = [req EXCEPT ![s] = Idle]
            /\ UNCHANGED clock
       ELSE /\ ProjectReadyToCommit(s, req[s])
            /\ UNCHANGED last
    /\ UNCHANGED <<users, projects, assoc, nextUserId, nextProjectId, admitted>>

\* variant: the timestamp is bumped only when the payload sets a field
TouchIfSent(row, data, t) == IF data = {} THEN row ELSE [row EXCEPT !.updated_at = t]

\* setattr(project, "updated_at", datetime.now()), whatever the payload
Touch(row, data, t) == [row EXCEPT !.updated_at = t]

\* db.commit(), db.refresh(project), the response
UpdateProjectCommit(s) ==
    /\ req[s].op = "update_project" /\ req[s].pc = "commit"
    /\ LET cur == RowById(projects, req[s].key)
           row == Touch(SetProjectFields(cur, req[s].data), req[s].data, req[s].stamp)
       IN  IF cur = NoRow
           THEN \* UPDATE matched no row: StaleDataError, not handled
                /\ last' = Response(s, 500, "store", NoMsg, "commit", NoRow)
                /\ UNCHANGED projects
           ELSE \E cand \in Rewritten(projects, row) :
                IF IntegrityOk(users, cand, assoc)
                THEN /\ projects' = cand
                     /\ last' = Response(s, 200, "none", NoMsg, "commit", row)
                ELSE /\ last' = Response(s, UpdateStatus(MsgProjectIdExists), "business",
                                         MsgProjectIdExists, "commit", NoRow)
                     /\ UNCHANGED projects
    /\ req' = [req EXCEPT ![s] = Idle]
    /\ UNCHANGED <<users, assoc, nextUserId, nextProjectId, clock, admitted>>

\* DELETE /v1/projects/{key} up to db.delete: the load of the row and of its
\* users collection (lazy = "selectin")
DeleteProjectLoad(s, k) ==
    /\ Admit(s)
    /\ UNCHANGED <<users, projects, assoc, nextUserId, nextProjectId, clock>>
    /\ IF RowById(projects, k) = NoRow
       THEN /\ last' = Answer(s, "delete_project", "DELETE", k, 0, {},
                              DeleteStatus(MsgProjectNotFound(k)), "business",
                              MsgProjectNotFound(k), "load", NoRow)
            /\ UNCHANGED req
       ELSE /\ req' = [req EXCEPT ![s] =
                         [Idle EXCEPT !.op = "delete_project", !.pc = "commit",
                                      !.method = "DELETE", !.key = k,
                                      !.row = RowById(projects, k),
                                      !.members = UsersOfProject(assoc, k)]]
            /\ UNCHANGED last

\* db.delete(project), db.commit()
DeleteProjectCommit(s) ==
    /\ req[s].op = "delete_project" /\ req[s].pc = "commit"
    /\ LET pairs == {<<u, req[s].key>> : u \in req[s].members}
           candA == DropLinks(assoc, pairs)
           candP == Without(projects, req[s].key)
       IN  IF ~(pairs \subseteq BagToSet(assoc))
           THEN \* DELETE of an association row matched nothing: StaleDataError
                /\ last' = Response(s, 500, "store", NoMsg, "commit", NoRow)
                /\ UNCHANGED <<projects, assoc>>
           ELSE IF IntegrityOk(users, candP, candA)
           THEN /\ projects' = candP
                /\ assoc' = candA
                /\ last' = Response(s, 204, "none", NoMsg, "commit", NoRow)
           ELSE \* IntegrityError (foreign key), not handled
                /\ last' = Response(s, 500, "store", NoMsg, "commit", NoRow)
                /\ UNCHANGED <<projects, assoc>>
    /\ req' = [req EXCEPT ![s] = Idle]
    /\ UNCHANGED <<users, nextUserId, nextProjectId, clock, admitted>>

----------------------------------------------------------------------------
(* Associations *)

Listing(ids) == [id |-> 0, items |-> ids]

\* variant: the membership test never finds the project
NeverLinked(a, u, p) == FALSE

\* project in user.projects, on the collection as loaded
AlreadyLinked(a, u, p) == p \in ProjectsOfUser(a, u)

\* POST /v1/projects/{p}/users/{u} up to the append: both loads, the
\* membership test on the loaded collection
AddUserLoad(s, u, p) ==
    /\ Admit(s)
    /\ UNCHANGED <<users, projects, assoc, nextUserId, nextProjectId, clock>>
    /\ IF RowById(users, u) = NoRow \/ RowById(projects, p) = NoRow
       THEN /\ last' = Answer(s, "add_user_to_project", "POST", u, p, {},
                              AddStatus(MsgUserOrProjectNotFound), "business",
                              MsgUserOrProjectNotFound, "load", NoRow)
            /\ UNCHANGED req
       ELSE IF AlreadyLinked(assoc, u, p)
       THEN \* already linked: nothing to do, the handler returns
            /\ last' = Answer(s, "add_user_to_project", "POST", u, p, {}, 204, "none",
                              NoMsg, "load", NoRow)
            /\ UNCHANGED req
       ELSE /\ req' = [req EXCEPT ![s] =
                         [Idle EXCEPT !.op = "add_user_to_project", !.pc = "commit",
                                      !.method = "POST", !.key = u, !.key2 = p,
                                      !.members = ProjectsOfUser(assoc, u)]]
            /\ UNCHANGED last

\* user.projects.append(project): one INSERT into the association table
AppendLink(a, u, p) == a (+) SetToBag({<<u, p>>})

\* user.projects.append(project), db.commit()
AddUserCommit(s) ==
    /\ req[s].op = "add_user_to_project" /\ req[s].pc = "commit"
    /\ LET cand == AppendLink(assoc, req[s].key, req[s].key2)
       IN  IF IntegrityOk(users, projects, cand)
           THEN /\ assoc' = cand
                /\ last' = Response(s, 204, "none", NoMsg, "commit", NoRow)
           ELSE \* IntegrityError (primary or foreign key), not handled
                /\ last' = Response(s, 500, "store", NoMsg, "commit", NoRow)
                /\ UNCHANGED assoc
    /\ req' = [req EXCEPT ![s] = Idle]
    /\ UNCHANGED <<users, projects, nextUserId, nextProjectId, clock, admitted>>

\* DELETE /v1/projects/{p}/users/{u} up to the remove
RemoveUserLoad(s, u, p) ==
    /\ Admit(s)
    /\ UNCHANGED <<users, projects, assoc, nextUserId, nextProjectId, clock>>
    /\ IF RowById(users, u) = NoRow \/ RowById(projects, p) = NoRow
       THEN /\ last' = Answer(s, "remove_user_from_project", "DELETE", u, p, {},
                              RemoveStatus(MsgUserOrProjectNotFound), "business",
                              MsgUserOrProjectNotFound, "load", NoRow)
            /\ UNCHANGED req
       ELSE IF ~AlreadyLinked(assoc, u, p)
       THEN /\ last' = Answer(s, "remove_user_from_project", "DELETE", u, p, {},
                              RemoveStatus(MsgNotInProject), "business",
                              MsgNotInProject, "load", NoRow)
            /\ UNCHANGED req
       ELSE /\ req' = [req EXCEPT ![s] =
                         [Idle EXCEPT !.op = "remove_user_from_project", !.pc = "commit",
                                      !.method = "DELETE", !.key = u, !.key2 = p,
                                      !.members = ProjectsOfUser(assoc, u)]]
            /\ UNCHANGED last

\* variant: the remove is not flushed
RemoveNothing(a, u, p) == a

\* user.projects.remove(project): one DELETE from the association table
RemoveLink(a, u, p) == a (-) SetToBag({<<u, p>>})

\* user.projects.remove(project), db.commit()
RemoveUserCommit(s) ==
    /\ req[s].op = "remove_user_from_project" /\ req[s].pc = "commit"
    /\ LET pair == <<req[s].key, req[s].key2>>
       IN  IF ~BagIn(pair, assoc)
           THEN \* DELETE of the association row matched nothing: StaleDataError
                /\ last' = Response(s, 500, "store", NoMsg, "commit", NoRow)
                /\ UNCHANGED assoc
           ELSE /\ assoc' = RemoveLink(assoc, req[s].key, req[s].key2)
                /\ last' = Response(s, 204, "none", NoMsg, "commit", NoRow)
    /\ req' = [req EXCEPT ![s] = Idle]
    /\ UNCHANGED <<users, projects, nextUserId, nextProjectId, clock, admitted>>

\* GET /v1/projects/{p}/users
ListUsersInProject(s, p) ==
    /\ Admit(s)
    /\ last' = IF RowById(projects, p) = NoRow
               THEN Answer(s, "list_users_in_project", "GET", 0, p, {}, 404, "http",
                           MsgProjectNotFound(p), "load", NoRow)
               ELSE Answer(s, "list_users_in_project", "GET", 0, p, {}, 200, "none",
                           NoMsg, "load", Listing(UsersOfProject(assoc, p)))
    /\ UNCHANGED <<users, projects, assoc, nextUserId, nextProjectId, clock, req>>

\* GET /v1/projects/user/{u}/projects
ListProjectsForUser(s, u) ==
    /\ Admit(s)
    /\ last' = IF RowById(users, u) = NoRow
               THEN Answer(s, "list_projects_for_user", "GET", u, 0, {}, 404, "http",
                           MsgUserNotFound(u), "load", NoRow)
               ELSE Answer(s, "list_projects_for_user", "GET", u, 0, {}, 200, "none",
                           NoMsg, "load", Listing(ProjectsOfUser(assoc, u)))
    /\ UNCHANGED <<users, projects, assoc, nextUserId, nextProjectId, clock, req>>

----------------------------------------------------------------------------
(* Settings *)

Unset == <<>>

\* a secret is its text and its length
DefaultSecret == <<"your-secret-key-change-this-in-production", 41>>
X32 == <<"xxxxxxxxxxxxxxxxxxxxxxxxxxxxxxxx", 32>>
X31 == <<"xxxxxxxxxxxxxxxxxxxxxxxxxxxxxxx", 31>>

Development == <<"development">>
Production == <<"production">>

\* environment: Literal["development", "staging", "production"]
ValidEnvironment(v) == v \in {Development, <<"staging">>, Production}

\* secret_key: Field(min_length = 32), checked on every value that is supplied
MinLength(v) == v[2] >= 32

\* the value pydantic validates for a field: the constructor argument, else
\* the environment variable; a field left to its default is not validated
Supplied(arg, env, default) == IF arg # Unset THEN arg ELSE env

\* the value the field gets
Value(arg, env, default) ==
    IF arg # Unset THEN arg ELSE IF env # Unset THEN env ELSE default

\* validate_secret_key: env = os.getenv("ENVIRONMENT", info.data.get(
\* "environment", "development")); TRUE when the validator returns v
ValidateSecretKey(v, osEnvironment, data) ==
    LET env == IF osEnvironment # Unset THEN osEnvironment
               ELSE IF data # Unset THEN data ELSE Development
    IN  /\ ~(env = Production /\ v = DefaultSecret)
        /\ ~(env = Production /\ v[2] < 32)

\* Settings(): no environment variable, every field at its default
DefaultSettings == [environment |-> Development, secret_key |-> DefaultSecret]
NoSettings == [environment |-> Unset, secret_key |-> Unset]

\* Settings(environment = e, secret_key = k), each argument given or not;
\* environment is validated before secret_key, in the order of the fields
Construct(e, k) ==
    LET envIn  == Supplied(e, environ.ENVIRONMENT, Development)
        keyIn  == Supplied(k, environ.SECRET_KEY, DefaultSecret)
        envOk  == envIn = Unset \/ ValidEnvironment(envIn)
        data   == IF envOk THEN Value(e, environ.ENVIRONMENT, Development) ELSE Unset
        keyOk  == \/ keyIn = Unset
                  \/ MinLength(keyIn) /\ ValidateSecretKey(keyIn, environ.ENVIRONMENT, data)
    IN  /\ IF envOk /\ keyOk
           THEN /\ settings' = [environment |-> Value(e, environ.ENVIRONMENT, Development),
                                secret_key |-> Value(k, environ.SECRET_KEY, DefaultSecret)]
                /\ raised' = FALSE
           ELSE /\ raised' = TRUE
                /\ UNCHANGED settings
        /\ UNCHANGED environ

\* settings.environment = e (validate_assignment: the field's own validation)
AssignEnvironment(e) ==
    /\ settings # NoSettings
    /\ IF ValidEnvironment(e)
       THEN settings' = [settings EXCEPT !.environment = e] /\ raised' = FALSE
       ELSE raised' = TRUE /\ UNCHANGED settings
    /\ UNCHANGED environ

\* settings.secret_key = k; info.data holds the other fields of the object
AssignSecretKey(k) ==
    /\ settings # NoSettings
    /\ IF MinLength(k) /\ ValidateSecretKey(k, environ.ENVIRONMENT, settings.environment)
       THEN settings' = [settings EXCEPT !.secret_key = k] /\ raised' = FALSE
       ELSE raised' = TRUE /\ UNCHANGED settings
    /\ UNCHANGED environ

\* the process environment is set up, by the shell or by monkeypatch.setenv
SetEnv(e, k) ==
    /\ environ' = [ENVIRONMENT |-> e, SECRET_KEY |-> k]
    /\ environ' # environ
    /\ UNCHANGED <<settings, raised>>

Environments == {Unset, Development, Production, <<"prod">>}
Secrets == {Unset, DefaultSecret, X32, X31}

----------------------------------------------------------------------------
(* Database sessions *)

\* variant: one module-level AsyncSession handed to every request
SameSession(n) == 1

\* session_factory(): the n + 1st AsyncSession of the process, a new object
NewSession(n) == n + 1

\* get_async_session: the sessionmaker is made on first use and kept
GetAsyncSession(made) == IF made = 0 THEN 1 ELSE made

\* Depends(get_db_session) around every handler: `async with session_factory()
\* as session: yield session` opens a session when the request is admitted
\* and closes it when the response is out
GetDbSession ==
    /\ sessionmaker' = IF admitted' # admitted THEN GetAsyncSession(sessionmaker)
                       ELSE sessionmaker
    /\ opened' = IF admitted' # admitted THEN opened + 1 ELSE opened
    /\ db' = [s \in Sessions |->
                IF req'[s] = Idle THEN 0
                ELSE IF req[s] = Idle THEN NewSession(opened)
                ELSE db[s]]

----------------------------------------------------------------------------
(* Inputs *)

Keys == {1, 2}
Methods == {"PUT", "PATCH"}

UserCreateBodies ==
    { {<<"given_name", G>>, <<"family_name", F>>, <<"email", X>>},
      {<<"given_name", G>>, <<"family_name", F>>, <<"email", Y>>},
      {<<"given_name", G>>, <<"family_name", F>>} }

UserUpdateBodies ==
    { {},
      {<<"given_name", H>>},
      {<<"email", X>>},
      {<<"email", Y>>},
      {<<"email", X>>, <<"given_name", Null>>},
      {<<"given_name", H>>, <<"family_name", F>>, <<"email", Y>>} }

ProjectCreateBodies ==
    { {<<"project_id", A>>, <<"description", D>>},
      {<<"project_id", PadA>>},
      {<<"project_id", B>>},
      {<<"project_id", Blank>>} }

ProjectUpdateBodies ==
    { {},
      {<<"project_id", A>>},
      {<<"project_id", B>>, <<"description", PadD>>},
      {<<"description", PadD>>},
      {<<"description", Null>>},
      {<<"project_id", Null>>} }

----------------------------------------------------------------------------
(* Specifications *)

Init ==
    /\ users = <<>>
    /\ projects = <<>>
    /\ assoc = EmptyBag
    /\ nextUserId = 1
    /\ nextProjectId = 1
    /\ clock = 0
    /\ admitted = 0
    /\ req = [s \in Sessions |-> Idle]
    /\ last = NoResponse
    /\ sessionmaker = 0
    /\ opened = 0
    /\ db = [s \in Sessions |-> 0]
    /\ environ = [ENVIRONMENT |-> Unset, SECRET_KEY |-> Unset]
    /\ settings = DefaultSettings
    /\ raised = FALSE
    /\ log = <<>>
    /\ correlation = [s \in Sessions |-> 0]
    /\ header = 0

\* the requests of the sessions in S, their bodies drawn from the given sets
Requests(S, K, ucb, uub, pcb, pub) ==
    \E s \in S :
        \/ \E b \in ucb : CreateUserCheck(s, b)
        \/ CreateUserCommit(s)
        \/ \E k \in K : GetUser(s, k)
        \/ \E k \in K, m \in Methods, b \in uub : UpdateUserLoad(s, k, m, b)
        \/ UpdateUserCheck(s)
        \/ UpdateUserCommit(s)
        \/ \E k \in K : DeleteUserLoad(s, k)
        \/ DeleteUserCommit(s)
        \/ \E b \in pcb : CreateProjectCheck(s, b)
        \/ CreateProjectCommit(s)
        \/ \E k \in K : GetProject(s, k)
        \/ \E k \in K, m \in Methods, b \in pub : UpdateProjectLoad(s, k, m, b)
        \/ UpdateProjectCheck(s)
        \/ UpdateProjectCommit(s)
        \/ \E k \in K : DeleteProjectLoad(s, k)
        \/ DeleteProjectCommit(s)
        \/ \E u \in K, p \in K : AddUserLoad(s, u, p)
        \/ AddUserCommit(s)
        \/ \E u \in K, p \in K : RemoveUserLoad(s, u, p)
        \/ RemoveUserCommit(s)
        \/ \E p \in K : ListUsersInProject(s, p)
        \/ \E u \in K : ListProjectsForUser(s, u)

\* one request at a time
Next ==
    /\ Requests({"s1"}, Keys, UserCreateBodies, UserUpdateBodies,
                ProjectCreateBodies, ProjectUpdateBodies)
    /\ GetDbSession
    /\ UNCHANGED <<config, logging>>

Spec == Init /\ [][Next]_vars

RaceUserCreateBodies ==
    { {<<"given_name", G>>, <<"family_name", F>>, <<"email", X>>},
      {<<"given_name", G>>, <<"family_name", F>>, <<"email", Y>>} }

RaceUserUpdateBodies ==
    { {<<"email", X>>},
      {<<"given_name", H>>, <<"family_name", F>>, <<"email", Y>>} }

RaceProjectCreateBodies == { {<<"project_id", A>>}, {<<"project_id", PadA>>} }

RaceProjectUpdateBodies == { {<<"project_id", A>>}, {<<"description", PadD>>} }

\* two requests in flight, interleaved at their awaits
RaceNext ==
    /\ Requests(Sessions, Keys, RaceUserCreateBodies, RaceUserUpdateBodies,
                RaceProjectCreateBodies, RaceProjectUpdateBodies)
    /\ GetDbSession
    /\ UNCHANGED <<config, logging>>

RaceSpec == Init /\ [][RaceNext]_vars

----------------------------------------------------------------------------
(* Paginated lists *)

\* skip: Query(0, ge = 0), limit: Query(100, ge = 1, le = 100)
ValidPage(skip, limit) == skip >= 0 /\ limit >= 1 /\ limit <= 100

\* variant: the window starts one row late
PageOffByOne(table, skip, limit) ==
    SubSeq(table, skip + 2,
           IF skip + 1 + limit < Len(table) THEN skip + 1 + limit ELSE Len(table))

\* select(...).offset(skip).limit(limit), in the order the store scans the table
Page(table, skip, limit) ==
    SubSeq(table, skip + 1, IF skip + limit < Len(table) THEN skip + limit ELSE Len(table))

\* select(func.count()).select_from(...)
Count(table) == Len(table)

\* the query string of a list request
Query(skip, limit) == {<<"skip", <<skip>>>>, <<"limit", <<limit>>>>}

\* PaginatedUsersResponse / PaginatedProjectsResponse
Envelope(items, total, limit, skip) ==
    [id |-> 0, items |-> items, total |-> total, limit |-> limit, skip |-> skip]

\* the request of a list that passed the Query constraints, after its count
\* query: the count is kept until the page query has answered
Counted(op, skip, limit, total) ==
    [Idle EXCEPT !.op = op, !.pc = "page", !.method = "GET",
                 !.body = Query(skip, limit), !.row = [id |-> 0, total |-> total]]

\* GET /v1/users/?skip=&limit= up to the page query: the Query constraints,
\* total = await session.scalar(select(func.count()))
GetUsers(s, skip, limit) ==
    /\ Admit(s)
    /\ UNCHANGED <<users, projects, assoc, nextUserId, nextProjectId, clock>>
    /\ IF ~ValidPage(skip, limit)
       THEN /\ last' = Answer(s, "get_users", "GET", 0, 0, Query(skip, limit), 422,
                              "validation", NoMsg, "schema", NoRow)
            /\ UNCHANGED req
       ELSE /\ req' = [req EXCEPT ![s] = Counted("get_users", skip, limit, Count(users))]
            /\ UNCHANGED last

\* await session.execute(select(UserORM).offset(skip).limit(limit)), the
\* envelope with the total counted before
GetUsersPage(s) ==
    /\ req[s].op = "get_users" /\ req[s].pc = "page"
    /\ LET skip  == Get(req[s].body, "skip")[1]
           limit == Get(req[s].body, "limit")[1]
       IN  last' = Response(s, 200, "none", NoMsg, "load",
                            Envelope(Page(users, skip, limit), req[s].row.total,
                                     limit, skip))
    /\ req' = [req EXCEPT ![s] = Idle]
    /\ UNCHANGED <<users, projects, assoc, nextUserId, nextProjectId, clock, admitted>>

\* GET /v1/projects/?skip=&limit= up to the page query
GetProjects(s, skip, limit) ==
    /\ Admit(s)
    /\ UNCHANGED <<users, projects, assoc, nextUserId, nextProjectId, clock>>
    /\ IF ~ValidPage(skip, limit)
       THEN /\ last' = Answer(s, "get_projects", "GET", 0, 0, Query(skip, limit), 422,
                              "validation", NoMsg, "schema", NoRow)
            /\ UNCHANGED req
       ELSE /\ req' = [req EXCEPT ![s] =
                         Counted("get_projects", skip, limit, Count(projects))]
            /\ UNCHANGED last

\* await self.db.execute(select(ProjectORM).offset(skip).limit(limit)), the
\* envelope with the total counted before
GetProjectsPage(s) ==
    /\ req[s].op = "get_projects" /\ req[s].pc = "page"
    /\ LET skip  == Get(req[s].body, "skip")[1]
           limit == Get(req[s].body, "limit")[1]
       IN  last' = Response(s, 200, "none", NoMsg, "load",
                            Envelope(Page(projects, skip, limit), req[s].row.total,
                                     limit, skip))
    /\ req' = [req EXCEPT ![s] = Idle]
    /\ UNCHANGED <<users, projects, assoc, nextUserId, nextProjectId, clock, admitted>>

Skips == {-1, 0, 2, 6}
Limits == {0, 2, 100, 101}

----------------------------------------------------------------------------
(* Error bodies *)

\* the details list the services attach to the BusinessException of a message
Details(msg) ==
    CASE msg = MsgEmailExists ->
           <<[field |-> "email",
              message |-> <<"Email", "address", "is", "already", "in", "use">>,
              code |-> "email_exists"]>>
      [] msg = MsgProjectIdExists ->
           <<[field |-> "project_id",
              message |-> <<"Project", "ID", "is", "already", "in", "use">>,
              code |-> "project_id_exists"]>>
      [] OTHER -> <<>>

\* http_exception_handler: the body of every HTTPException, "details": []
HttpErrorBody(status, detail) ==
    [error |-> status, detail |-> detail, details |-> <<>>]

\* the create routers: except BusinessException as exc:
\*     raise HTTPException(status_code=400, detail=exc.message)
CreateErrorBody(r) == HttpErrorBody(r.status, r.msg)

----------------------------------------------------------------------------
(* A store that holds rows already *)

\* the i-th user created into the empty store
SeedUser(i) ==
    [id |-> i, given_name |-> G, family_name |-> F, email |-> <<"e", ToString(i)>>,
     created_at |-> i]

\* the i-th project, created after n users
SeedProject(i, n) ==
    [id |-> i, project_id |-> <<"p", ToString(i)>>, description |-> Null,
     created_at |-> n + i, updated_at |-> n + i]

\* n users and then n projects have been created, one request at a time
StoredInit ==
    \E n \in 0..MaxRows :
        /\ users = [i \in 1..n |-> SeedUser(i)]
        /\ projects = [i \in 1..n |-> SeedProject(i, n)]
        /\ assoc = EmptyBag
        /\ nextUserId = n + 1
        /\ nextProjectId = n + 1
        /\ clock = 2 * n
        /\ admitted = 0
        /\ req = [s \in Sessions |-> Idle]
        /\ last = NoResponse
        /\ sessionmaker = (IF n = 0 THEN 0 ELSE 1)
        /\ opened = 2 * n
        /\ db = [s \in Sessions |-> 0]
        /\ environ = [ENVIRONMENT |-> Unset, SECRET_KEY |-> Unset]
        /\ settings = DefaultSettings
        /\ raised = FALSE
        /\ log = <<>>
        /\ correlation = [s \in Sessions |-> 0]
        /\ header = 0

StoredKeys == {1, 3}
\* the user body also names fields that UserUpdate does not have
StoredUserUpdateBodies ==
    { {<<"email", X>>, <<"id", <<"9">>>>, <<"created_at", <<"9">>>>} }
StoredProjectUpdateBodies == { {<<"project_id", B>>} }

\* lists, updates and associations on the stored rows, one request at a time
StoredRequests ==
    \E s \in {"s1"} :
        \/ \E skip \in Skips, limit \in Limits : GetUsers(s, skip, limit)
        \/ GetUsersPage(s)
        \/ \E skip \in Skips, limit \in Limits : GetProjects(s, skip, limit)
        \/ GetProjectsPage(s)
        \/ \E k \in StoredKeys, b \in StoredUserUpdateBodies : UpdateUserLoad(s, k, "PATCH", b)
        \/ UpdateUserCheck(s)
        \/ UpdateUserCommit(s)
        \/ \E k \in StoredKeys, b \in StoredProjectUpdateBodies :
               UpdateProjectLoad(s, k, "PATCH", b)
        \/ UpdateProjectCheck(s)
        \/ UpdateProjectCommit(s)
        \/ \E u \in StoredKeys, p \in StoredKeys : AddUserLoad(s, u, p)
        \/ AddUserCommit(s)
        \/ \E u \in StoredKeys, p \in StoredKeys : RemoveUserLoad(s, u, p)
        \/ RemoveUserCommit(s)
        \/ \E p \in StoredKeys : ListUsersInProject(s, p)
        \/ \E u \in StoredKeys : ListProjectsForUser(s, u)

StoredNext == StoredRequests /\ GetDbSession /\ UNCHANGED <<config, logging>>

StoredSpec == StoredInit /\ [][StoredNext]_vars

----------------------------------------------------------------------------
(* Lists next to creates and deletes *)

RaceSkips == {0, 1}
RaceLimits == {1, 100}

\* two requests in flight on the empty store: lists, creates and deletes
ListRaceRequests ==
    \E s \in Sessions :
        \/ \E skip \in RaceSkips, limit \in RaceLimits : GetUsers(s, skip, limit)
        \/ GetUsersPage(s)
        \/ \E skip \in RaceSkips, limit \in RaceLimits : GetProjects(s, skip, limit)
        \/ GetProjectsPage(s)
        \/ \E b \in RaceUserCreateBodies : CreateUserCheck(s, b)
        \/ CreateUserCommit(s)
        \/ \E k \in Keys : DeleteUserLoad(s, k)
        \/ DeleteUserCommit(s)
        \/ \E b \in RaceProjectCreateBodies : CreateProjectCheck(s, b)
        \/ CreateProjectCommit(s)
        \/ \E k \in Keys : DeleteProjectLoad(s, k)
        \/ DeleteProjectCommit(s)

ListRaceNext == ListRaceRequests /\ GetDbSession /\ UNCHANGED <<config, logging>>

ListRaceSpec == Init /\ [][ListRaceNext]_vars

----------------------------------------------------------------------------
(* The request logging middleware *)

\* str(uuid.uuid4()): an id no earlier request has; n ids were drawn before
Uuid4(n) == n + 1

Started(c) == <<"Request started", c>>
Completed(c) == <<"Request completed", c>>

\* an exception no handler is registered for: call_next raises it in dispatch,
\* and the 500 is made outside the middleware
Unhandled(r) == r.status = 500

\* the step ends the request of session s
Answering(s) ==
    /\ req'[s] = Idle
    /\ \/ req[s] # Idle
       \/ admitted' # admitted /\ req' = req /\ last'.session = s

\* RequestLoggingMiddleware.dispatch around the handler's steps: the id and
\* "Request started" when the request comes in; "Request completed" and the
\* header once call_next has returned the response
Dispatch ==
    LET cid      == Uuid4(admitted)
        begun    == IF admitted' # admitted THEN Append(log, Started(cid)) ELSE log
        answered == {s \in Sessions : Answering(s)}
    IN  /\ correlation' = [s \in Sessions |->
                              IF req'[s] = Idle THEN 0
                              ELSE IF req[s] = Idle THEN cid ELSE correlation[s]]
        /\ IF answered = {}
           THEN log' = begun /\ UNCHANGED header
           ELSE LET s  == CHOOSE a \in answered : TRUE
                    id == IF req[s] = Idle THEN cid ELSE correlation[s]
                IN  IF Unhandled(last')
                    THEN log' = begun /\ header' = 0
                    ELSE log' = Append(begun, Completed(id)) /\ header' = id

LoggedUserCreateBodies == { {<<"given_name", G>>, <<"family_name", F>>, <<"email", X>>} }
LoggedProjectCreateBodies == { {<<"project_id", A>>} }
LoggedKeys == {1}

\* two requests in flight behind the middleware
LoggedRequests ==
    \E s \in Sessions :
        \/ \E b \in LoggedUserCreateBodies : CreateUserCheck(s, b)
        \/ CreateUserCommit(s)
        \/ \E k \in LoggedKeys : GetUser(s, k)
        \/ \E b \in LoggedProjectCreateBodies : CreateProjectCheck(s, b)
        \/ CreateProjectCommit(s)
        \/ \E u \in LoggedKeys, p \in LoggedKeys : AddUserLoad(s, u, p)
        \/ AddUserCommit(s)

LoggedNext ==
    /\ LoggedRequests
    /\ GetDbSession
    /\ Dispatch
    /\ UNCHANGED config

LoggedSpec == Init /\ [][LoggedNext]_vars

\* the event loop resumes every coroutine whose await has completed: a request
\* in flight takes its next step
Resume(s) == LoggedNext /\ req[s] # Idle /\ req'[s] # req[s]

FairLoggedSpec == LoggedSpec /\ \A s \in Sessions : WF_vars(Resume(s))

----------------------------------------------------------------------------
(* The configuration on its own *)

\* no Settings object yet, the environment not set up, the store untouched
SettingsInit ==
    /\ users = <<>> /\ projects = <<>> /\ assoc = EmptyBag
    /\ nextUserId = 1 /\ nextProjectId = 1
    /\ clock = 0 /\ admitted = 0
    /\ req = [s \in Sessions |-> Idle]
    /\ last = NoResponse
    /\ sessionmaker = 0 /\ opened = 0
    /\ db = [s \in Sessions |-> 0]
    /\ environ = [ENVIRONMENT |-> Unset, SECRET_KEY |-> Unset]
    /\ settings = NoSettings
    /\ raised = FALSE
    /\ log = <<>>
    /\ correlation = [s \in Sessions |-> 0]
    /\ header = 0

SettingsNext ==
    /\ \/ \E e \in Environments, k \in Secrets : SetEnv(e, k)
       \/ \E e \in Environments, k \in Secrets : Construct(e, k)
       \/ \E e \in Environments \ {Unset} : AssignEnvironment(e)
       \/ \E k \in Secrets \ {Unset} : AssignSecretKey(k)
    /\ UNCHANGED <<users, projects, assoc, nextUserId, nextProjectId, clock, admitted,
                   req, last, sessionmaker, opened, db, logging>>

SettingsSpec == SettingsInit /\ [][SettingsNext]_vars

----------------------------------------------------------------------------
(* Properties *)

Failed(r) == r.status \in {400, 404, 422, 500}

\* the Conflict business failure as the client sees it
IsConflict(r) ==
    /\ r.status = 400
    /\ r.exc = "business"
    /\ Contains(Lower(r.msg), <<"already", "exists">>)

\* C1: in every reachable state, under any interleaving of the requests, no
\* two distinct users have the same email and no two distinct projects have
\* the same project identifier.
C1_UniqueKeys ==
    /\ \A i, j \in DOMAIN users : i # j => users[i].email # users[j].email
    /\ \A i, j \in DOMAIN projects : i # j => projects[i].project_id # projects[j].project_id

\* a create that passed the duplicate check was refused by the store at its
\* commit, the key having been taken in between
C1_Witness ==
    /\ last.op = "create_user" /\ last.via = "commit" /\ last.status = 400
    /\ \E i \in DOMAIN users : users[i].email = Get(last.body, "email")

\* C2: a second add of the same user to the same project, directly after a
\* first add that succeeded, answers 204 and leaves exactly one association
\* of the pair.
C2_AddTwice ==
    [][\A s \in Sessions :
        (/\ Answered(s)
         /\ last'.op = "add_user_to_project"
         /\ last.op = "add_user_to_project" /\ last.status = 204
         /\ last'.key = last.key /\ last'.key2 = last.key2)
        => /\ last'.status = 204
           /\ last'.exc = "none"
           /\ CopiesIn(<<last.key, last.key2>>, assoc') = 1]_vars

\* create user, create project, add, add: the second add found the link
C2_Witness ==
    /\ admitted = 4
    /\ Len(users) = 1 /\ Len(projects) = 1
    /\ last.op = "add_user_to_project" /\ last.status = 204 /\ last.via = "load"
    /\ CopiesIn(<<last.key, last.key2>>, assoc) = 1

\* C3: every association pair refers to a stored user and a stored project;
\* after a successful delete of a user or a project no pair refers to it, and
\* the relationship lists return stored entities only.
C3_NoDanglingAssociation ==
    /\ [](\A e \in BagToSet(assoc) : e[1] \in Ids(users) /\ e[2] \in Ids(projects))
    /\ [][\A s \in Sessions :
            /\ (Answered(s) /\ last'.op = "delete_user" /\ last'.status = 204)
               => /\ last'.key \notin Ids(users')
                  /\ ProjectsOfUser(assoc', last'.key) = {}
                  /\ \A p \in Ids(projects') : last'.key \notin UsersOfProject(assoc', p)
            /\ (Answered(s) /\ last'.op = "delete_project" /\ last'.status = 204)
               => /\ last'.key \notin Ids(projects')
                  /\ UsersOfProject(assoc', last'.key) = {}
                  /\ \A u \in Ids(users') : last'.key \notin ProjectsOfUser(assoc', u)
            /\ (Answered(s) /\ last'.op = "list_users_in_project" /\ last'.status = 200)
               => last'.result.items \subseteq Ids(users')
            /\ (Answered(s) /\ last'.op = "list_projects_for_user" /\ last'.status = 200)
               => last'.result.items \subseteq Ids(projects')]_vars

\* a user that was in a project has been deleted
C3_Witness ==
    /\ last.op = "delete_user" /\ last.status = 204 /\ last.members # {}
    /\ last.key \notin Ids(users)
    /\ projects # <<>>

\* C4: a create whose email (project identifier) is held by a stored user
\* (project) ends in the Conflict failure, HTTP 400 with a message containing
\* "already exists", and stores nothing.
C4_DuplicateCreate ==
    [][\A s \in Sessions :
        /\ (/\ Answered(s) /\ last'.op = "create_user"
            /\ ValidUserCreate(last'.body)
            /\ \E i \in DOMAIN users : users[i].email = Get(last'.body, "email"))
           => IsConflict(last') /\ store' = store
        /\ (/\ Answered(s) /\ last'.op = "create_project"
            /\ ValidProjectCreate(last'.body)
            /\ \E i \in DOMAIN projects :
                   projects[i].project_id = Get(last'.body, "project_id"))
           => IsConflict(last') /\ store' = store]_vars

\* a create found its project identifier in the store
C4_Witness ==
    /\ last.op = "create_project" /\ last.via = "check" /\ IsConflict(last)
    /\ \E i \in DOMAIN projects : projects[i].project_id = Get(last.body, "project_id")

\* C5: of two creates with one key that both passed the duplicate check, the
\* first to commit is stored and the other ends in the Conflict failure of a
\* sequential duplicate, the store unchanged, never in an unhandled error.
C5_RacingCreate ==
    [][\A s \in Sessions :
        /\ (req[s].op = "create_user" /\ req[s].pc = "commit" /\ req'[s] = Idle)
           => IF \E i \in DOMAIN users : users[i].email = req[s].row.email
              THEN /\ IsConflict(last') /\ last'.msg = MsgEmailExists
                   /\ store' = store
              ELSE /\ last'.status = 201
                   /\ users' = Append(users, last'.result)
                   /\ last'.result.email = req[s].row.email
        /\ (req[s].op = "create_project" /\ req[s].pc = "commit" /\ req'[s] = Idle)
           => IF \E i \in DOMAIN projects : projects[i].project_id = req[s].row.project_id
              THEN /\ IsConflict(last') /\ last'.msg = MsgProjectIdExists
                   /\ store' = store
              ELSE /\ last'.status = 201
                   /\ projects' = Append(projects, last'.result)
                   /\ last'.result.project_id = req[s].row.project_id]_vars

\* the second of two racing creates got the Conflict from its commit
C5_Witness ==
    /\ last.op = "create_user" /\ last.via = "commit"
    /\ IsConflict(last) /\ last.msg = MsgEmailExists
    /\ Len(users) = 1

Trimmed(v) == IF v = Null THEN Null ELSE RStrip(LStrip(v))

\* a get answers with the stored row
GetShowsStore ==
    \A s \in Sessions :
        /\ (Answered(s) /\ last'.op = "get_user" /\ last'.status = 200)
           => last'.result = RowById(users, last'.key)
        /\ (Answered(s) /\ last'.op = "get_project" /\ last'.status = 200)
           => last'.result = RowById(projects, last'.key)

\* a get directly after the create of the entity answers what the create answered
GetAfterCreate ==
    \A s \in Sessions :
        /\ (/\ Answered(s) /\ last'.op = "get_user"
            /\ last.op = "create_user" /\ last.status = 201 /\ last'.key = last.result.id)
           => last'.status = 200 /\ last'.result = last.result
        /\ (/\ Answered(s) /\ last'.op = "get_project"
            /\ last.op = "create_project" /\ last.status = 201 /\ last'.key = last.result.id)
           => last'.status = 200 /\ last'.result = last.result

C8_NotFound ==
    [][\A s \in Sessions :
        /\ (/\ Answered(s) /\ last'.op \in {"get_user", "delete_user"}
            /\ last'.key \notin Ids(users))
           => last'.status = 404
        /\ (/\ Answered(s) /\ last'.op = "update_user"
            /\ last'.method = "PUT" => UserPutMissing(last'.body) = {}
            /\ last'.key \notin Ids(users))
           => last'.status = 404
        /\ (/\ Answered(s) /\ last'.op \in {"get_project", "delete_project"}
            /\ last'.key \notin Ids(projects))
           => last'.status = 404
        /\ (/\ Answered(s) /\ last'.op = "update_project"
            /\ IF last'.method = "PUT" THEN ValidProjectCreate(last'.body)
                                       ELSE ValidProjectUpdate(last'.body)
            /\ last'.key \notin Ids(projects))
           => last'.status = 404]_vars

\* an update of a user that was created and deleted before
C8_Witness ==
    /\ last.op = "update_user" /\ last.status = 404
    /\ last.key \notin Ids(users) /\ last.key < nextUserId

\* the row of a successful PATCH of a project, field by field
PatchedProject(old, new, body, value(_)) ==
    /\ new.id = old.id /\ new.created_at = old.created_at
    /\ new.project_id = IF Has(body, "project_id") THEN value(Get(body, "project_id"))
                        ELSE old.project_id
    /\ new.description = IF Has(body, "description") THEN value(Get(body, "description"))
                         ELSE old.description

\* the row of a successful PATCH of a user, field by field
PatchedUser(old, new, body, value(_)) ==
    /\ new.id = old.id /\ new.created_at = old.created_at
    /\ \A f \in UserRequired :
           new[f] = IF Has(body, f) THEN value(Get(body, f)) ELSE old[f]

AsSent(v) == v

\* the stored row after a successful PATCH, compared with the row before it
PatchSets(value(_)) ==
    \A s \in Sessions :
        /\ (/\ Answered(s) /\ last'.op = "update_user"
            /\ last'.method = "PATCH" /\ last'.status = 200)
           => /\ PatchedUser(RowById(users, last'.key), RowById(users', last'.key),
                             last'.body, value)
              /\ last'.result = RowById(users', last'.key)
        /\ (/\ Answered(s) /\ last'.op = "update_project"
            /\ last'.method = "PATCH" /\ last'.status = 200)
           => /\ PatchedProject(RowById(projects, last'.key), RowById(projects', last'.key),
                                last'.body, value)
              /\ last'.result = RowById(projects', last'.key)

C10_UpdateConflict ==
    [][\A s \in Sessions :
        /\ (/\ Answered(s) /\ last'.op = "update_user"
            /\ last'.method = "PUT" => UserPutMissing(last'.body) = {}
            /\ last'.key \in Ids(users)
            /\ Has(last'.body, "email") /\ Get(last'.body, "email") # Null)
           => LET k == Trimmed(Get(last'.body, "email"))
              IN  /\ (\E i \in DOMAIN users : users[i].email = k /\ users[i].id # last'.key)
                     => IsConflict(last')
                  /\ (\A i \in DOMAIN users : users[i].email = k <=> users[i].id = last'.key)
                     => ~IsConflict(last')
        /\ (/\ Answered(s) /\ last'.op = "update_project"
            /\ IF last'.method = "PUT" THEN ValidProjectCreate(last'.body)
                                       ELSE ValidProjectUpdate(last'.body)
            /\ last'.key \in Ids(projects)
            /\ Has(last'.body, "project_id") /\ Get(last'.body, "project_id") # Null)
           => LET k == Trimmed(Get(last'.body, "project_id"))
              IN  /\ (\E i \in DOMAIN projects :
                          projects[i].project_id = k /\ projects[i].id # last'.key)
                     => IsConflict(last')
                  /\ (\A i \in DOMAIN projects :
                          projects[i].project_id = k <=> projects[i].id = last'.key)
                     => ~IsConflict(last')]_vars

\* an update that sent the user's own email was answered with the Conflict
C10_Witness ==
    /\ last.op = "update_user" /\ IsConflict(last)
    /\ Has(last.body, "email")
    /\ \A i \in DOMAIN users :
           users[i].email = Get(last.body, "email") <=> users[i].id = last.key
    /\ last.key \in Ids(users)

\* C11: every successful update of a project, PATCH or PUT, leaves its
\* updated_at different from the value before the update, also when the
\* payload is empty or repeats the stored values.
C11_ProjectUpdatedAtChanges ==
    [][\A s \in Sessions :
        (Answered(s) /\ last'.op = "update_project" /\ last'.status = 200)
        => /\ RowById(projects', last'.key).updated_at
                # RowById(projects, last'.key).updated_at
           /\ last'.result.updated_at = RowById(projects', last'.key).updated_at]_vars

\* a PATCH with an empty payload was answered 200
C11_Witness ==
    /\ last.op = "update_project" /\ last.method = "PATCH" /\ last.status = 200
    /\ last.body = {}
    /\ last.result.updated_at > last.result.created_at

\* C12 as stated: every successful update of a user, PATCH or PUT, returns an
\* updated_at strictly greater than the one the user had before the update.
C12_UserUpdatedAtGrows ==
    [][\A s \in Sessions :
        (Answered(s) /\ last'.op = "update_user" /\ last'.status = 200)
        => /\ "updated_at" \in DOMAIN last'.result
           /\ "updated_at" \in DOMAIN RowById(users, last'.key)
           /\ last'.result.updated_at > RowById(users, last'.key).updated_at]_vars

\* a user was updated and its row carries the time of its creation only
C12_Witness ==
    /\ last.op = "update_user" /\ last.status = 200
    /\ last.result = RowById(users, last.key)
    /\ "created_at" \in DOMAIN last.result
    /\ "updated_at" \notin DOMAIN last.result
    /\ clock > last.result.created_at

\* C13: a PUT on a user without given_name, family_name or email, and a PUT
\* on a project without project_id, is answered 422 in the step that admits
\* it: the service is not called and the store is unchanged.
C13_PutRequiresAllFields ==
    [][\A s \in Sessions :
        /\ (/\ Answered(s) /\ last'.op = "update_user" /\ last'.method = "PUT"
            /\ ~(UserRequired \subseteq Fields(last'.body)))
           => /\ last'.status = 422
              /\ req[s] = Idle
              /\ store' = store
        /\ (/\ Answered(s) /\ last'.op = "update_project" /\ last'.method = "PUT"
            /\ "project_id" \notin Fields(last'.body))
           => /\ last'.status = 422
              /\ req[s] = Idle
              /\ store' = store]_vars

\* a PUT with the email alone on a stored user was answered 422
C13_Witness ==
    /\ last.op = "update_user" /\ last.method = "PUT" /\ last.status = 422
    /\ last.key \in Ids(users)
    /\ Fields(last.body) = {"email"}

\* the relationship lists answer with the association relation
ListsShowRelation ==
    \A s \in Sessions :
        /\ (Answered(s) /\ last'.op = "list_projects_for_user" /\ last'.status = 200)
           => last'.result.items = {p \in Ids(projects) : BagIn(<<last'.key, p>>, assoc)}
        /\ (Answered(s) /\ last'.op = "list_users_in_project" /\ last'.status = 200)
           => last'.result.items = {u \in Ids(users) : BagIn(<<u, last'.key2>>, assoc)}

\* C14: after a successful add the pair is in the relation, which is what
\* the two relationship lists return; after a successful remove (204) it is
\* not; a remove of a pair of stored entities that is not in the relation
\* answers 404 and leaves the associations as they were.
C14_AddListRemove ==
    [][/\ ListsShowRelation
       /\ \A s \in Sessions :
            /\ (Answered(s) /\ last'.op = "add_user_to_project" /\ last'.status = 204)
               => BagIn(<<last'.key, last'.key2>>, assoc')
            /\ (Answered(s) /\ last'.op = "remove_user_from_project" /\ last'.status = 204)
               => ~BagIn(<<last'.key, last'.key2>>, assoc')
            /\ (/\ Answered(s) /\ last'.op = "remove_user_from_project"
                /\ last'.key \in Ids(users) /\ last'.key2 \in Ids(projects)
                /\ ~BagIn(<<last'.key, last'.key2>>, assoc))
               => last'.status = 404 /\ assoc' = assoc]_vars

\* a pair that had been added was removed again
C14_Witness ==
    /\ last.op = "remove_user_from_project" /\ last.status = 204
    /\ last.key \in Ids(users) /\ last.key2 \in Ids(projects)
    /\ last.key2 \in last.members
    /\ ~BagIn(<<last.key, last.key2>>, assoc)

\* C15: an association operation that names a user or a project the store
\* does not hold answers 404 and creates or deletes no association: add and
\* remove for either entity, the list of a project's users for the project,
\* the list of a user's projects for the user.
C15_AssociationNotFound ==
    [][\A s \in Sessions :
        /\ (/\ Answered(s)
            /\ last'.op \in {"add_user_to_project", "remove_user_from_project"}
            /\ (last'.key \notin Ids(users) \/ last'.key2 \notin Ids(projects)))
           => last'.status = 404 /\ assoc' = assoc
        /\ (/\ Answered(s) /\ last'.op = "list_users_in_project"
            /\ last'.key2 \notin Ids(projects))
           => last'.status = 404 /\ assoc' = assoc
        /\ (/\ Answered(s) /\ last'.op = "list_projects_for_user"
            /\ last'.key \notin Ids(users))
           => last'.status = 404 /\ assoc' = assoc]_vars

\* an add of a stored user to a project the store does not hold
C15_Witness ==
    /\ last.op = "add_user_to_project" /\ last.status = 404
    /\ last.key \in Ids(users) /\ last.key2 \notin Ids(projects)
    /\ assoc = EmptyBag

\* C16: in every reachable state, also under interleaved adds and removes of
\* one user and one project, the association relation holds each pair at
\* most once.
C16_PairAtMostOnce == \A e \in BagToSet(assoc) : CopiesIn(e, assoc) <= 1

\* of two adds of one pair that both found it absent, the second was refused
\* by the store
C16_Witness ==
    /\ last.op = "add_user_to_project" /\ last.via = "commit" /\ last.status = 500
    /\ CopiesIn(<<last.key, last.key2>>, assoc) = 1

\* the number of items a list of n rows returns for skip and limit
C17_Expected(n, skip, limit) ==
    LET rest == IF n - skip > 0 THEN n - skip ELSE 0
    IN  IF limit < rest THEN limit ELSE rest

C17_PageOf(table) ==
    LET skip  == Get(last'.body, "skip")[1]
        limit == Get(last'.body, "limit")[1]
    IN  (skip >= 0 /\ limit >= 1 /\ limit <= 100)
        => /\ last'.status = 200
           /\ Len(last'.result.items) = C17_Expected(Len(table), skip, limit)
           /\ last'.result.total = Len(table)
           /\ last'.result.skip = skip
           /\ last'.result.limit = limit

C18_InsertionOrder(table) ==
    [i \in DOMAIN table |->
        CHOOSE r \in Rows(table) : Cardinality({k \in Ids(table) : k <= r.id}) = i]

C18_PageInOrder(table) ==
    LET skip  == Get(last'.body, "skip")[1]
        limit == Get(last'.body, "limit")[1]
        upto  == IF skip + limit < Len(table) THEN skip + limit ELSE Len(table)
    IN  last'.status = 200
        => last'.result.items = SubSeq(C18_InsertionOrder(table), skip + 1, upto)

\* C18: a list request returns the entities in the order of their creation,
\* also after updates of stored entities: of five entities, skip = 2 and
\* limit = 2 return the third and the fourth created, with total 5.
C18_ListInInsertionOrder ==
    [][\A s \in Sessions :
        /\ (Answered(s) /\ last'.op = "get_users") => C18_PageInOrder(users)
        /\ (Answered(s) /\ last'.op = "get_projects") => C18_PageInOrder(projects)]_vars

\* five projects, the third of them updated: skip = 2 and limit = 2 return
\* the fourth and the fifth created
C18_Witness ==
    /\ last.op = "get_projects" /\ last.status = 200
    /\ Len(projects) = 5
    /\ last.result.skip = 2 /\ last.result.limit = 2 /\ last.result.total = 5
    /\ Len(last.result.items) = 2
    /\ last.result.items[1].id = 4 /\ last.result.items[2].id = 5

C19_Field(op) == IF op = "create_project" THEN "project_id" ELSE "email"

\* C19: the response to a create request refused as a Conflict carries
\* details records (field, message, code) that name the identifier field:
\* project_id for a duplicate project, email for a duplicate user.
C19_ConflictDetails ==
    [][\A s \in Sessions :
        (/\ Answered(s)
         /\ last'.op \in {"create_project", "create_user"}
         /\ IsConflict(last'))
        => \E i \in DOMAIN CreateErrorBody(last').details :
               CreateErrorBody(last').details[i].field = C19_Field(last'.op)]_vars

\* a duplicate project refused with 400: the service named project_id in its
\* details, the response body has none
C19_Witness ==
    /\ last.op = "create_project" /\ IsConflict(last)
    /\ \E i \in DOMAIN Details(last.msg) : Details(last.msg)[i].field = "project_id"
    /\ CreateErrorBody(last).details = <<>>
    /\ CreateErrorBody(last).detail = MsgProjectIdExists

\* the kinds of business failure, by the message the service raised
C20_NotFound(msg) ==
    \/ msg = MsgUserOrProjectNotFound
    \/ \E k \in Keys : msg = MsgUserNotFound(k) \/ msg = MsgProjectNotFound(k)

C20_NotInRelation(msg) == msg = MsgNotInProject

C20_Conflict(msg) == msg \in {MsgEmailExists, MsgProjectIdExists}

\* C20: for every operation, key and payload the status of a business failure
\* depends only on its kind: NotFound and NotInRelation are answered 404 and
\* Conflict is answered 400; no NotFound is answered 400, no Conflict 404.
C20_StatusByKind ==
    [][\A s \in Sessions :
        (Answered(s) /\ last'.exc = "business")
        => /\ C20_NotFound(last'.msg) \/ C20_NotInRelation(last'.msg)
              \/ C20_Conflict(last'.msg)
           /\ (C20_NotFound(last'.msg) \/ C20_NotInRelation(last'.msg))
              => last'.status = 404
           /\ C20_Conflict(last'.msg) => last'.status = 400]_vars

\* the removal of a user that is not in the project, both stored: 404
C20_Witness ==
    /\ last.op = "remove_user_from_project" /\ last.exc = "business"
    /\ C20_NotInRelation(last.msg) /\ last.status = 404
    /\ last.key \in Ids(users) /\ last.key2 \in Ids(projects)

\* the pair (u, p) is in the association table
C21_Related(a, u, p) == BagIn(<<u, p>>, a)

\* C21: for every stored user u and project p, the users listed for p
\* contain u if and only if the projects listed for u contain p; both hold
\* exactly when the pair was added and has not been removed since; a list
\* holds a related entity once.
C21_ListsAgree ==
    [][\A s \in Sessions :
        \* each list is the relation as stored, every entry backed by one row
        /\ (Answered(s) /\ last'.op = "list_users_in_project" /\ last'.status = 200)
           => /\ last'.result.items = {u \in Ids(users) : C21_Related(assoc, u, last'.key2)}
              /\ \A u \in last'.result.items : CopiesIn(<<u, last'.key2>>, assoc) = 1
        /\ (Answered(s) /\ last'.op = "list_projects_for_user" /\ last'.status = 200)
           => /\ last'.result.items = {q \in Ids(projects) : C21_Related(assoc, last'.key, q)}
              /\ \A q \in last'.result.items : CopiesIn(<<last'.key, q>>, assoc) = 1
        \* the two lists, asked one after the other, agree on every pair
        /\ (/\ Answered(s) /\ last'.op = "list_projects_for_user" /\ last'.status = 200
            /\ last.op = "list_users_in_project" /\ last.status = 200)
           => (last'.key \in last.result.items <=> last.key2 \in last'.result.items)
        /\ (/\ Answered(s) /\ last'.op = "list_users_in_project" /\ last'.status = 200
            /\ last.op = "list_projects_for_user" /\ last.status = 200)
           => (last.key \in last'.result.items <=> last'.key2 \in last.result.items)
        \* a pair appears by a successful add only and goes by a successful
        \* remove (or with the delete of one of its ends) only
        /\ \A u \in Ids(users), q \in Ids(projects) :
              /\ (C21_Related(assoc', u, q) /\ ~C21_Related(assoc, u, q))
                 => /\ last'.op = "add_user_to_project" /\ last'.status = 204
                    /\ last'.key = u /\ last'.key2 = q
              /\ (C21_Related(assoc, u, q) /\ ~C21_Related(assoc', u, q))
                 => /\ last'.status = 204
                    /\ \/ /\ last'.op = "remove_user_from_project"
                          /\ last'.key = u /\ last'.key2 = q
                       \/ last'.op = "delete_user" /\ last'.key = u
                       \/ last'.op = "delete_project" /\ last'.key = q]_vars

\* user 1 was added to projects 1 and 3, then its projects were listed
C21_Witness ==
    /\ last.op = "list_projects_for_user" /\ last.status = 200 /\ last.key = 1
    /\ last.result.items = {1, 3}
    /\ CopiesIn(<<1, 3>>, assoc) = 1 /\ CopiesIn(<<1, 1>>, assoc) = 1
    /\ ~BagIn(<<3, 3>>, assoc)
    /\ admitted = 3

\* C22: every request works on a database session of its own, opened for
\* that request and closed when the request ends; no session is ever held by
\* two requests in flight; the sessionmaker is one object for the process.
C22_SessionPerRequest ==
    /\ [](/\ sessionmaker <= 1
          /\ \A s \in Sessions : db[s] # 0 <=> req[s] # Idle
          /\ \A s, t \in Sessions : (s # t /\ db[s] # 0) => db[s] # db[t])
    /\ [][\A s \in Sessions :
            \* a request admitted and still running holds a session no
            \* request held before, made by the one sessionmaker
            /\ (req[s] = Idle /\ req'[s] # Idle)
               => /\ db'[s] > opened
                  /\ \A t \in Sessions : db[t] # db'[s]
                  /\ sessionmaker' = 1
            \* the session stays with its request until the response
            /\ (req[s] # Idle /\ req'[s] # Idle) => db'[s] = db[s]
            /\ Answered(s) => db'[s] = 0]_vars

\* two requests in flight, each on its own session
C22_Witness ==
    /\ req["s1"] # Idle /\ req["s2"] # Idle
    /\ db["s1"] # 0 /\ db["s2"] # 0 /\ db["s1"] # db["s2"]
    /\ sessionmaker = 1
    /\ opened >= 3

\* the row stored by the create just answered has both timestamps, and equal
C23_SingleCreationTime(table) ==
    LET row == RowById(table, last'.result.id)
    IN  /\ row # NoRow
        /\ "updated_at" \in DOMAIN row
        /\ row.created_at = row.updated_at

\* C23: directly after a successful create the stored entity's created_at
\* and updated_at are equal, both being the one creation time.
C23_CreatedEqualsUpdated ==
    [][\A s \in Sessions :
        /\ (Answered(s) /\ last'.op = "create_project" /\ last'.status = 201)
           => C23_SingleCreationTime(projects')
        /\ (Answered(s) /\ last'.op = "create_user" /\ last'.status = 201)
           => C23_SingleCreationTime(users')]_vars

\* a project just created whose two timestamps are two readings of the clock
C23_Witness ==
    /\ last.op = "create_project" /\ last.status = 201
    /\ RowById(projects, last.result.id) = last.result
    /\ last.result.updated_at = last.result.created_at + 1

\* a user just created: the row has a created_at and no updated_at
C23_UserWitness ==
    /\ last.op = "create_user" /\ last.status = 201
    /\ RowById(users, last.result.id) = last.result
    /\ "updated_at" \notin DOMAIN last.result

\* C24: a successful PUT on a project replaces all of its fields, a
\* description left out of the payload being stored as null; a successful
\* PATCH that leaves out the description keeps the stored one.
C24_PutReplacesPatchKeeps ==
    [][\A s \in Sessions :
        /\ (/\ Answered(s) /\ last'.op = "update_project"
            /\ last'.method = "PUT" /\ last'.status = 200)
           => LET row == RowById(projects', last'.key)
              IN  /\ row.project_id = Trimmed(Get(last'.body, "project_id"))
                  /\ row.description =
                        IF Has(last'.body, "description")
                        THEN Trimmed(Get(last'.body, "description")) ELSE Null
        /\ (/\ Answered(s) /\ last'.op = "update_project"
            /\ last'.method = "PATCH" /\ last'.status = 200
            /\ ~Has(last'.body, "description"))
           => RowById(projects', last'.key).description
                  = RowById(projects, last'.key).description]_vars

\* a PUT that names the project_id only: the stored description is null
C24_Witness ==
    /\ last.op = "update_project" /\ last.method = "PUT" /\ last.status = 200
    /\ last.body = {<<"project_id", A>>}
    /\ RowById(projects, last.key).description = Null
    /\ RowById(projects, last.key).updated_at > RowById(projects, last.key).created_at

\* C25: two add requests for one stored user and one stored project that run
\* concurrently while the pair is absent both end with 204 and leave exactly
\* one association; neither ends in a store error that nothing handles.
C25_ConcurrentAddsSucceed ==
    [][\A s \in Sessions :
        (/\ Answered(s) /\ last'.op = "add_user_to_project"
         /\ last'.key \in Ids(users) /\ last'.key2 \in Ids(projects))
        => /\ last'.status = 204
           /\ last'.exc = "none"
           /\ CopiesIn(<<last'.key, last'.key2>>, assoc') = 1]_vars

\* user and project created, two adds of the pair admitted before either
\* committed: the second commit raised and the request ended in a 500
C25_Witness ==
    /\ admitted = 4
    /\ \A s \in Sessions : req[s] = Idle
    /\ last.op = "add_user_to_project" /\ last.via = "commit"
    /\ last.status = 500 /\ last.exc = "store"
    /\ last.key \in Ids(users) /\ last.key2 \in Ids(projects)
    /\ CopiesIn(<<last.key, last.key2>>, assoc) = 1

C26_Within ==
    LET room == last'.result.total - last'.result.skip
    IN  Len(last'.result.items) <= (IF room > 0 THEN room ELSE 0)

\* C26: in every list response, also when a create or a delete commits
\* between the count query and the page query of the request, the number of
\* items is at most max(0, total - skip): total and items describe one state
\* of the store.
C26_TotalCoversItems ==
    [][\A s \in Sessions :
        /\ (Answered(s) /\ last'.op = "get_users" /\ last'.status = 200)
           => C26_Within
        /\ (Answered(s) /\ last'.op = "get_projects" /\ last'.status = 200)
           => C26_Within]_vars

\* a list counted the empty table, a create committed, the page query found
\* the new row: one item, total 0
C26_Witness ==
    /\ last.op = "get_users" /\ last.status = 200
    /\ last.result.skip = 0
    /\ last.result.total = 0
    /\ Len(last.result.items) = 1
    /\ Len(users) = 1

\* a row other than the one of key holds the value the payload asks for
C27_HeldByAnother(table, field, body, key) ==
    /\ Has(body, field)
    /\ \E i \in DOMAIN table :
           table[i][field] = Trimmed(Get(body, field)) /\ table[i].id # key

\* C27: a create or an update ends with the Conflict failure (email_exists,
\* project_id_exists) only if another entity holds the requested key when
\* the request commits; an integrity failure of any other cause, a null
\* written to a required column or a broken foreign key, is not reported as
\* that Conflict.
C27_ConflictOnlyForDuplicate ==
    [][\A s \in Sessions :
        /\ (/\ Answered(s) /\ last'.op \in {"create_user", "update_user"}
            /\ IsConflict(last'))
           => C27_HeldByAnother(users, "email", last'.body, last'.key)
        /\ (/\ Answered(s) /\ last'.op \in {"create_project", "update_project"}
            /\ IsConflict(last'))
           => C27_HeldByAnother(projects, "project_id", last'.body, last'.key)]_vars

\* a PATCH that sets the only project's project_id to null: the commit
\* failed on the required column and the answer is the duplicate's
C27_Witness ==
    /\ last.op = "update_project" /\ last.method = "PATCH"
    /\ last.body = {<<"project_id", Null>>}
    /\ IsConflict(last) /\ last.via = "commit" /\ last.msg = MsgProjectIdExists
    /\ Len(projects) = 1 /\ last.key \in Ids(projects)

\* the row of key is the one it was, save for the fields an update may set
C28_Kept(before, after, key) ==
    /\ Ids(after) = Ids(before)
    /\ RowById(after, key).id = key
    /\ RowById(after, key).created_at = RowById(before, key).created_at
    /\ \A k \in Ids(before) \ {key} : RowById(after, k) = RowById(before, k)

\* C28: a successful update of a user or a project changes neither the id of
\* the entity nor its created_at (nor the key the user is addressed by), and
\* adds and removes no association: the pairs are the same before and after.
C28_UpdateFrame ==
    [][\A s \in Sessions :
        /\ (Answered(s) /\ last'.op = "update_user" /\ last'.status = 200)
           => /\ C28_Kept(users, users', last'.key)
              /\ last'.result.id = last'.key
              /\ projects' = projects
              /\ assoc' = assoc
        /\ (Answered(s) /\ last'.op = "update_project" /\ last'.status = 200)
           => /\ C28_Kept(projects, projects', last'.key)
              /\ last'.result.id = last'.key
              /\ users' = users
              /\ assoc' = assoc]_vars

\* user 1, in project 1, updated by a payload that names id and created_at
C28_Witness ==
    /\ last.op = "update_user" /\ last.status = 200 /\ last.key = 1
    /\ Has(last.body, "created_at") /\ Has(last.body, "id")
    /\ RowById(users, 1).email = X
    /\ RowById(users, 1).created_at = 1
    /\ BagIn(<<1, 1>>, assoc)

C30_Logged == {log[i] : i \in 1..Len(log)}

\* C30: for every request the middleware emits "Request started" before the
\* handler runs and, once the handler has produced a response, emits "Request
\* completed" with the same correlation id and sets X-Correlation-ID to that
\* id; every "Request started" is eventually followed by its "Request
\* completed".
C30_StartedThenCompleted ==
    /\ [](\A s \in Sessions : req[s] # Idle =>
            /\ correlation[s] # 0
            /\ Started(correlation[s]) \in C30_Logged
            /\ Completed(correlation[s]) \notin C30_Logged)
    /\ [][\A s \in Sessions : (Answering(s) /\ ~Unhandled(last')) =>
            /\ Len(log') > 1
            /\ log'[Len(log')][1] = "Request completed"
            /\ Started(log'[Len(log')][2]) \in {log'[i] : i \in 1..(Len(log') - 1)}
            /\ req[s] # Idle => log'[Len(log')][2] = correlation[s]
            /\ header' = log'[Len(log')][2]]_vars
    /\ \A c \in 1..MaxRequests :
            (Started(c) \in C30_Logged) ~> (Completed(c) \in C30_Logged)

\* a request was answered 500 after its commit raised: its "Request started"
\* is in the log, no request is in flight, and its "Request completed" is not
\* there, nor the header
C30_Witness ==
    /\ last.status = 500 /\ last.op = "add_user_to_project"
    /\ \A s \in Sessions : req[s] = Idle
    /\ header = 0
    /\ \E c \in 1..MaxRequests :
            Started(c) \in C30_Logged /\ Completed(c) \notin C30_Logged

====
